---- MODULE Spec2Model ----
(***************************************************************************)
(* Model of src/dxgi/mod.rs: the DXGI output enumerator (Displays,        *)
(* Display), the capture session (Capturer: new, frame, load_frame,        *)
(* ohgodwhat, Drop), the cursor tracker inside load_frame and the cursor   *)
(* compositor (draw_cursor and its three per-encoding helpers).            *)
(*                                                                         *)
(* Three specifications share the variables:                               *)
(*   SpecEnum    the enumerator and the Display handles it hands out       *)
(*   Spec        one capture session, step by step through a frame pull    *)
(*   SpecTracker the cursor position update of load_frame as a function    *)
(*               of its inputs                                             *)
(***************************************************************************)
EXTENDS Integers, Sequences, FiniteSets, TLC

\* ------------------------------------------------------------------ bounds
\* Adapters the factory reports, and outputs of all adapters together.
MaxAdapters == 3
MaxOutputs == 3
\* Calls of Capturer::frame on one session.
MaxPulls == 2
\* Display::width() and Display::height() of the captured output, in pixels.
FrameWidth == 2
FrameHeight == 2

\* ------------------------------------------------------------------ state
VARIABLES
    \* --- platform: the adapters and, per output, whether QueryInterface
    \*     for IDXGIOutput1 succeeds on it
    adapters,
    \* --- COM reference counts of the factory and of each adapter
    factoryRef, adapterRef,
    \* --- Displays fields
    adapter, nadapter, ndisplay,
    \* --- the caller's side of the iterator
    enumAlive,      \* the Displays value has not been dropped
    ended,          \* the last next() returned None
    yielded,        \* the Display handles handed out so far, as <<adapter, output>>
    held,           \* per adapter, the Display handles not yet dropped
    innerRefs       \* outstanding IDXGIOutput1 references (Display.inner)

enumVars == <<adapters, factoryRef, adapterRef, adapter, nadapter, ndisplay,
              enumAlive, ended, yielded, held, innerRefs>>

VARIABLES
    \* --- position in Capturer::new / frame / load_frame
    pc,             \* "start", "load", "cursor", "map", "draw", "idle",
                    \* "failed", "dropped", "crashed", "tracked"
    caller,         \* who called load_frame: "new" or "frame"
    pulls,          \* calls of frame() so far
    \* --- Capturer fields (device, context, duplication as reference counts)
    devRef, ctxRef, dupRef,
    capture_mouse, cursor_info, fastlane,
    surface,        \* NULL or the pull that created the staging surface
    data,           \* the bytes behind the data pointer; << >> is null
    len, height, width, output_number, offset_x, offset_y, desc,
    \* --- locals of load_frame that live across its steps
    frame,          \* NULL or the pull that acquired the IDXGIResource
    info,           \* DXGI_OUTDUPL_FRAME_INFO the tracker step used, until the pull maps
    timeout,        \* argument of frame() / load_frame()
    \* --- platform state of the duplication
    frameHeld,      \* a frame is acquired and not yet released (ReleaseFrame)
    desktopMapped,  \* MapDesktopSurface is in effect
    surfaceMapped,  \* the surface self.surface points to is mapped
    nMapped,        \* staging surfaces currently mapped
    handleRefs,     \* outstanding references per handle kind of a pull
    \* --- what the caller and the platform observed
    pending,        \* a new frame was pending at the last AcquireNextFrame
    acqAttempts,    \* AcquireNextFrame calls of the current pull
    lastHr,         \* HRESULT of DuplicateOutput, then of the last AcquireNextFrame
    loadResult,     \* return value of the last load_frame
    result,         \* return value of the last new() / frame()
    badRelease,     \* a Release was issued through a null pointer
    cursor0,        \* cursor_info as constructed
    bits,           \* the mapped surface as the platform filled it
    primeClean,     \* new()'s own pull returned with its handles released
    tr_prev,        \* cursor_info before the last tracker update
    dropOrder,      \* the handles Drop has released, in order
    seenBefore      \* what the tracker step of the pull in progress was given

capVars == <<pc, caller, pulls, devRef, ctxRef, dupRef, capture_mouse,
             cursor_info, fastlane, surface, data, len, height, width,
             output_number, offset_x, offset_y, desc, frame, info, timeout,
             frameHeld, desktopMapped, surfaceMapped, nMapped, handleRefs,
             pending,
             acqAttempts, lastHr, loadResult, result, badRelease, cursor0,
             bits, primeClean, tr_prev, dropOrder, seenBefore>>

vars == <<enumVars, capVars>>

\* ptr::null_mut() for the adapter pointer; a live adapter is its index
NULL == -1

AdapterIds == 0 .. (MaxAdapters - 1)

\* ---------------------------------------------------------------- platform
\* the outputs of one adapter, at most k of them: for each whether
\* QueryInterface for IDXGIOutput1 succeeds on it
OutputLists(k) == UNION {[1 .. n -> BOOLEAN] : n \in 0 .. k}

RECURSIVE ConfigsOf(_, _)
\* n adapters with at most k outputs together
ConfigsOf(n, k) ==
    IF n = 0 THEN {<<>>}
    ELSE UNION {{<<outs>> \o rest : rest \in ConfigsOf(n - 1, k - Len(outs))} :
                    outs \in OutputLists(k)}

AdapterConfigs == UNION {ConfigsOf(n, MaxOutputs) : n \in 0 .. MaxAdapters}

\* IDXGIFactory1::EnumAdapters1(i, &mut adapter): the adapter of index i with
\* one more reference, or null
EnumAdapters1(cfg, refs, i) ==
    IF i < Len(cfg)
    THEN [ptr |-> i, refs |-> [refs EXCEPT ![i] = @ + 1]]
    ELSE [ptr |-> NULL, refs |-> refs]

\* IDXGIAdapter::EnumOutputs(n, &mut output): non-null iff the output exists
HasOutput(cfg, a, n) == n < Len(cfg[a + 1])

\* IUnknown::QueryInterface(IID_IDXGIOUTPUT1) on output n of adapter a
IsCapable(cfg, a, n) == cfg[a + 1][n + 1]

\* --------------------------------------------------------------- Displays
\* The fields read_and_invalidate and next work on.
EnumState == [adapter |-> adapter, nadapter |-> nadapter, ndisplay |-> ndisplay,
              adapterRef |-> adapterRef, innerRefs |-> innerRefs]

\* Mutant: a failing output is skipped and the walk goes on with the next
\* output of the same adapter.
RECURSIVE read_and_invalidate_skip(_, _)
read_and_invalidate_skip(cfg, s) ==
    IF s.adapter = NULL
    THEN [s |-> s, res |-> "NoAdapter", disp |-> <<>>]
    ELSE IF ~HasOutput(cfg, s.adapter, s.ndisplay)
    THEN [s |-> [s EXCEPT !.adapterRef[s.adapter] = @ - 1, !.adapter = NULL],
          res |-> "EndOfAdapter", disp |-> <<>>]
    ELSE IF ~IsCapable(cfg, s.adapter, s.ndisplay)
    THEN read_and_invalidate_skip(cfg, [s EXCEPT !.ndisplay = @ + 1])
    ELSE [s |-> [s EXCEPT !.ndisplay = @ + 1,
                          !.adapterRef[s.adapter] = @ + 1,
                          !.innerRefs = @ + 1],
          res |-> "Output", disp |-> <<s.adapter, s.ndisplay>>]

\* Mutant: the Display is handed out without AddRef on the adapter.
read_and_invalidate_noaddref(cfg, s) ==
    IF s.adapter = NULL
    THEN [s |-> s, res |-> "NoAdapter", disp |-> <<>>]
    ELSE IF ~HasOutput(cfg, s.adapter, s.ndisplay)
    THEN [s |-> [s EXCEPT !.adapterRef[s.adapter] = @ - 1, !.adapter = NULL],
          res |-> "EndOfAdapter", disp |-> <<>>]
    ELSE IF ~IsCapable(cfg, s.adapter, s.ndisplay)
    THEN [s |-> [s EXCEPT !.ndisplay = @ + 1,
                          !.adapterRef[s.adapter] = @ - 1, !.adapter = NULL],
          res |-> "EndOfAdapter", disp |-> <<>>]
    ELSE [s |-> [s EXCEPT !.ndisplay = @ + 1, !.innerRefs = @ + 1],
          res |-> "Output", disp |-> <<s.adapter, s.ndisplay>>]

\* Displays::read_and_invalidate.
\*   "NoAdapter"    is Some(None)
\*   "Output"       is Some(Some(Display))
\*   "EndOfAdapter" is None
read_and_invalidate(cfg, s) ==
    IF s.adapter = NULL
    THEN [s |-> s, res |-> "NoAdapter", disp |-> <<>>]
    ELSE IF ~HasOutput(cfg, s.adapter, s.ndisplay)
    THEN \* the current adapter is done: Release it
         [s |-> [s EXCEPT !.adapterRef[s.adapter] = @ - 1, !.adapter = NULL],
          res |-> "EndOfAdapter", disp |-> <<>>]
    ELSE IF ~IsCapable(cfg, s.adapter, s.ndisplay)
    THEN \* ndisplay += 1; output.Release(); inner is null: act like the
         \* adapter is done
         [s |-> [s EXCEPT !.ndisplay = @ + 1,
                          !.adapterRef[s.adapter] = @ - 1, !.adapter = NULL],
          res |-> "EndOfAdapter", disp |-> <<>>]
    ELSE \* ndisplay += 1; output.Release(); adapter.AddRef(); the Display
         \* keeps inner and the adapter
         [s |-> [s EXCEPT !.ndisplay = @ + 1,
                          !.adapterRef[s.adapter] = @ + 1,
                          !.innerRefs = @ + 1],
          res |-> "Output", disp |-> <<s.adapter, s.ndisplay>>]

\* Iterator::next for Displays, as a function of the fields.
next(cfg, s) ==
    LET r1 == read_and_invalidate(cfg, s) IN
    IF r1.res # "EndOfAdapter"
    THEN r1
    ELSE \* replace the adapter
         LET ea == EnumAdapters1(cfg, r1.s.adapterRef, r1.s.nadapter + 1)
             s2 == [r1.s EXCEPT !.ndisplay = 0, !.nadapter = @ + 1,
                                !.adapter = ea.ptr, !.adapterRef = ea.refs]
         IN read_and_invalidate(cfg, s2)

\* Displays::new, after CreateDXGIFactory1 succeeded.
InitEnum ==
    /\ adapters \in AdapterConfigs
    /\ factoryRef = 1
    /\ LET ea == EnumAdapters1(adapters, [a \in AdapterIds |-> 0], 0) IN
         /\ adapter = ea.ptr
         /\ adapterRef = ea.refs
    /\ nadapter = 0
    /\ ndisplay = 0
    /\ enumAlive = TRUE
    /\ ended = FALSE
    /\ yielded = <<>>
    /\ held = [a \in AdapterIds |-> 0]
    /\ innerRefs = 0

\* The caller calls next() on the live iterator.
IterNext ==
    /\ enumAlive
    /\ LET r == next(adapters, EnumState) IN
         /\ adapter' = r.s.adapter
         /\ nadapter' = r.s.nadapter
         /\ ndisplay' = r.s.ndisplay
         /\ adapterRef' = r.s.adapterRef
         /\ innerRefs' = r.s.innerRefs
         /\ IF r.res = "Output"
            THEN /\ yielded' = Append(yielded, r.disp)
                 /\ held' = [held EXCEPT ![r.disp[1]] = @ + 1]
                 /\ ended' = FALSE
            ELSE /\ ended' = TRUE
                 /\ UNCHANGED <<yielded, held>>
    /\ UNCHANGED <<adapters, factoryRef, enumAlive>>
    /\ UNCHANGED capVars

\* Drop for Display: inner.Release(); adapter.Release().
DropDisplay(a) ==
    /\ held[a] > 0
    /\ held' = [held EXCEPT ![a] = @ - 1]
    /\ innerRefs' = innerRefs - 1
    /\ adapterRef' = [adapterRef EXCEPT ![a] = @ - 1]
    /\ UNCHANGED <<adapters, factoryRef, adapter, nadapter, ndisplay, enumAlive,
                   ended, yielded>>
    /\ UNCHANGED capVars

\* Drop for Displays: factory.Release(); adapter.Release() if non-null.
DropDisplays ==
    /\ enumAlive
    /\ enumAlive' = FALSE
    /\ factoryRef' = factoryRef - 1
    /\ adapterRef' = IF adapter # NULL
                     THEN [adapterRef EXCEPT ![adapter] = @ - 1]
                     ELSE adapterRef
    /\ UNCHANGED <<adapters, adapter, nadapter, ndisplay, ended, yielded, held,
                   innerRefs>>
    /\ UNCHANGED capVars

NextEnum ==
    \/ IterNext
    \/ \E a \in AdapterIds : DropDisplay(a)
    \/ DropDisplays



\* ------------------------------------------------------------ wrap_hresult
HResults == {"S_OK", "DXGI_ERROR_ACCESS_LOST", "DXGI_ERROR_WAIT_TIMEOUT",
             "DXGI_ERROR_INVALID_CALL", "E_ACCESSDENIED", "DXGI_ERROR_UNSUPPORTED",
             "DXGI_ERROR_NOT_CURRENTLY_AVAILABLE", "DXGI_ERROR_SESSION_DISCONNECTED",
             "E_FAIL", "S_FALSE"}

\* Mutant: a disconnected session is reported with the kind of a lost access.
wrap_hresult_one_lost_kind(x) ==
    CASE x = "S_OK" -> "Ok"
      [] x = "DXGI_ERROR_ACCESS_LOST" -> "ConnectionReset"
      [] x = "DXGI_ERROR_WAIT_TIMEOUT" -> "TimedOut"
      [] x = "DXGI_ERROR_INVALID_CALL" -> "InvalidData"
      [] x = "E_ACCESSDENIED" -> "PermissionDenied"
      [] x = "DXGI_ERROR_UNSUPPORTED" -> "ConnectionRefused"
      [] x = "DXGI_ERROR_NOT_CURRENTLY_AVAILABLE" -> "Interrupted"
      [] x = "DXGI_ERROR_SESSION_DISCONNECTED" -> "ConnectionReset"
      [] OTHER -> "Other"

\* wrap_hresult: "Ok" for Ok(()), else the io::ErrorKind of the Err
wrap_hresult(x) ==
    CASE x = "S_OK" -> "Ok"
      [] x = "DXGI_ERROR_ACCESS_LOST" -> "ConnectionReset"
      [] x = "DXGI_ERROR_WAIT_TIMEOUT" -> "TimedOut"
      [] x = "DXGI_ERROR_INVALID_CALL" -> "InvalidData"
      [] x = "E_ACCESSDENIED" -> "PermissionDenied"
      [] x = "DXGI_ERROR_UNSUPPORTED" -> "ConnectionRefused"
      [] x = "DXGI_ERROR_NOT_CURRENTLY_AVAILABLE" -> "Interrupted"
      [] x = "DXGI_ERROR_SESSION_DISCONNECTED" -> "ConnectionAborted"
      [] OTHER -> "Other"

\* ---------------------------------------------------------- cursor shapes
DXGI_OUTDUPL_POINTER_SHAPE_TYPE_MONOCHROME == 1
DXGI_OUTDUPL_POINTER_SHAPE_TYPE_COLOR == 2
DXGI_OUTDUPL_POINTER_SHAPE_TYPE_MASKED_COLOR == 4

\* Pointer shapes GetFramePointerShape can deliver: DXGI_OUTDUPL_POINTER_SHAPE_INFO
\* and the shape bytes.
ColorShape ==
    [shape_info |-> [Type |-> DXGI_OUTDUPL_POINTER_SHAPE_TYPE_COLOR, Width |-> 1,
                     Height |-> 1, Pitch |-> 4, HotSpot |-> <<0, 0>>],
     bytes |-> <<255, 255, 255, 255>>]
MaskedShape ==
    [shape_info |-> [Type |-> DXGI_OUTDUPL_POINTER_SHAPE_TYPE_MASKED_COLOR,
                     Width |-> 2, Height |-> 1, Pitch |-> 8, HotSpot |-> <<1, 0>>],
     bytes |-> <<0, 200, 0, 255, 10, 0, 0, 0>>]
PointerShapes == {ColorShape, MaskedShape}

\* mem::uninitialized() for shape_info: whatever the memory held
UninitShapeInfos ==
    {ColorShape.shape_info,
     [Type |-> 0, Width |-> 0, Height |-> 0, Pitch |-> 0, HotSpot |-> <<0, 0>>]}

\* --------------------------------------------------------- cursor tracker
\* Mutant: the position update is applied to every report.
UpdateCursorPosition_always(ci, fi, out, offx, offy, d) ==
    [ci EXCEPT !.position = <<fi.x + d.left - offx, fi.y + d.top - offy>>,
               !.who_updated_position_last = out,
               !.last_time_stamp = fi.LastMouseUpdateTime,
               !.visible = (fi.Visible # 0)]

\* Mutant: an older report for a visible cursor is rejected whichever output
\* updated the position last.
UpdateCursorPosition_stale_any_output(ci, fi, out, offx, offy, d) ==
    LET update_position ==
            IF fi.Visible = 0 /\ ci.who_updated_position_last # out
            THEN FALSE
            ELSE IF /\ fi.Visible # 0
                    /\ ci.visible
                    /\ ci.last_time_stamp > fi.LastMouseUpdateTime
            THEN FALSE
            ELSE TRUE
    IN IF update_position
       THEN [ci EXCEPT !.position = <<fi.x + d.left - offx, fi.y + d.top - offy>>,
                       !.who_updated_position_last = out,
                       !.last_time_stamp = fi.LastMouseUpdateTime,
                       !.visible = (fi.Visible # 0)]
       ELSE ci

\* load_frame, lines 151-178: the position update of one frame whose
\* LastMouseUpdateTime is not 0.
UpdateCursorPosition(ci, fi, out, offx, offy, d) ==
    LET update_position ==
            IF fi.Visible = 0 /\ ci.who_updated_position_last # out
            THEN FALSE
            ELSE IF /\ fi.Visible # 0
                    /\ ci.visible
                    /\ ci.who_updated_position_last # out
                    /\ ci.last_time_stamp > fi.LastMouseUpdateTime
            THEN FALSE
            ELSE TRUE
    IN IF update_position
       THEN [ci EXCEPT !.position = <<fi.x + d.left - offx, fi.y + d.top - offy>>,
                       !.who_updated_position_last = out,
                       !.last_time_stamp = fi.LastMouseUpdateTime,
                       !.visible = (fi.Visible # 0)]
       ELSE ci

\* Mutant: the shape buffer is resized to every reported size.
GrowShape_resize(shape, n) ==
    [i \in 1 .. n |-> IF i <= Len(shape) THEN shape[i] ELSE 0]

\* Vec::resize(n, 0) when n exceeds the length (lines 181-187)
GrowShape(shape, n) ==
    IF n > Len(shape)
    THEN shape \o [i \in 1 .. (n - Len(shape)) |-> 0]
    ELSE shape

\* GetFramePointerShape writes the shape into the front of the buffer
StoreShape(shape, bytes) ==
    [i \in 1 .. Len(shape) |-> IF i <= Len(bytes) THEN bytes[i] ELSE shape[i]]

\* ------------------------------------------------------ cursor compositor
\* frame[i] and shape[i] of the source are f[i + 1] and sh[i + 1] here.
U16(n) == n % 65536
U8(n) == n % 256
Bit(byte, k) == (byte \div (2 ^ k)) % 2

RECURSIVE BlendChannels(_, _, _, _, _, _)
\* the loop "for i in 0..3" of draw_color_cursor, from channel i on
BlendChannels(f, sh, frame_index, cursor_index, alpha, i) ==
    IF i >= 3 THEN f
    ELSE LET f2 == IF frame_index + i < Len(f) /\ cursor_index + i < Len(sh)
                   THEN LET cursor_color == sh[cursor_index + i + 1]
                            frame_color == f[frame_index + i + 1]
                        IN [f EXCEPT ![frame_index + i + 1] =
                               U8(U16(U16(alpha * cursor_color)
                                      + U16((255 - alpha) * frame_color)) \div 255)]
                   ELSE f
         IN BlendChannels(f2, sh, frame_index, cursor_index, alpha, i + 1)

\* Mutant: the colour encoding draws every pixel with a nonzero alpha opaque.
draw_color_cursor_opaque(f, sh, frame_index, cursor_index) ==
    IF cursor_index + 3 < Len(sh)
    THEN LET alpha == sh[cursor_index + 3 + 1] IN
         IF alpha > 0
         THEN LET f2 == BlendChannels(f, sh, frame_index, cursor_index, 255, 0) IN
              IF frame_index + 3 < Len(f2)
              THEN [f2 EXCEPT ![frame_index + 3 + 1] = 255]
              ELSE f2
         ELSE f
    ELSE f

\* Capturer::draw_color_cursor
draw_color_cursor(f, sh, frame_index, cursor_index) ==
    IF cursor_index + 3 < Len(sh)
    THEN LET alpha == sh[cursor_index + 3 + 1] IN
         IF alpha > 0
         THEN LET f2 == BlendChannels(f, sh, frame_index, cursor_index, alpha, 0) IN
              IF frame_index + 3 < Len(f2)
              THEN [f2 EXCEPT ![frame_index + 3 + 1] = 255]
              ELSE f2
         ELSE f
    ELSE f

\* the loops "for i in 0..3" of draw_monochrome_cursor: g(v) is the new value
SetChannels(f, frame_index, invert) ==
    [k \in 1 .. Len(f) |->
        IF k - 1 >= frame_index /\ k - 1 < frame_index + 3
        THEN (IF invert THEN 255 - f[k] ELSE 0)
        ELSE f[k]]

\* Capturer::draw_monochrome_cursor
draw_monochrome_cursor(f, sh, shape_info, frame_index, cursor_index, x) ==
    LET byte_index == cursor_index \div 8
        bit_index == 7 - (x % 8)
        half == shape_info.Height \div 2
    IN IF byte_index < Len(sh) /\ byte_index + half < Len(sh)
       THEN LET and_mask == Bit(sh[byte_index + 1], bit_index)
                xor_mask == Bit(sh[byte_index + half + 1], bit_index)
            IN IF and_mask = 0 /\ xor_mask = 1 THEN SetChannels(f, frame_index, TRUE)
               ELSE IF and_mask = 0 /\ xor_mask = 0 THEN SetChannels(f, frame_index, FALSE)
               ELSE f
       ELSE f

\* Mutant: the masked-colour encoding copies zero source bytes as well.
draw_masked_color_cursor_copy_all(f, sh, frame_index, cursor_index) ==
    IF cursor_index + 3 < Len(sh)
    THEN LET alpha == sh[cursor_index + 3 + 1] IN
         IF alpha > 0
         THEN LET f2 == BlendChannels(f, sh, frame_index, cursor_index, 255, 0) IN
              IF frame_index + 3 < Len(f2)
              THEN [f2 EXCEPT ![frame_index + 3 + 1] = 255]
              ELSE f2
         ELSE f
    ELSE f

RECURSIVE CopyChannels(_, _, _, _, _)
\* the loop "for i in 0..3" of draw_masked_color_cursor, from channel i on
CopyChannels(f, sh, frame_index, cursor_index, i) ==
    IF i >= 3 THEN f
    ELSE LET f2 == IF /\ frame_index + i < Len(f)
                      /\ cursor_index + i < Len(sh)
                      /\ sh[cursor_index + i + 1] > 0
                   THEN [f EXCEPT ![frame_index + i + 1] = sh[cursor_index + i + 1]]
                   ELSE f
         IN CopyChannels(f2, sh, frame_index, cursor_index, i + 1)

\* Capturer::draw_masked_color_cursor
draw_masked_color_cursor(f, sh, frame_index, cursor_index) ==
    IF cursor_index + 3 < Len(sh)
    THEN LET alpha == sh[cursor_index + 3 + 1] IN
         IF alpha > 0
         THEN LET f2 == CopyChannels(f, sh, frame_index, cursor_index, 0) IN
              IF frame_index + 3 < Len(f2)
              THEN [f2 EXCEPT ![frame_index + 3 + 1] = 255]
              ELSE f2
         ELSE f
    ELSE f

\* the body of the two loops of draw_cursor for the cursor pixel (x, y)
DrawCursorPixel(f, ci, w, h, x, y) ==
    LET bytes_per_pixel == 4
        si == ci.shape_info
        frame_x == ci.position[1] + x - si.HotSpot[1]
        frame_y == ci.position[2] + y - si.HotSpot[2]
    IN IF frame_x >= 0 /\ frame_y >= 0 /\ frame_x < w /\ frame_y < h
       THEN LET frame_index == (frame_y * w + frame_x) * bytes_per_pixel IN
            IF frame_index + 3 < Len(f)
            THEN LET cursor_index == y * si.Pitch + x * 4 IN
                 IF cursor_index + 3 < Len(ci.shape)
                 THEN CASE si.Type = DXGI_OUTDUPL_POINTER_SHAPE_TYPE_COLOR ->
                             draw_color_cursor(f, ci.shape, frame_index, cursor_index)
                        [] si.Type = DXGI_OUTDUPL_POINTER_SHAPE_TYPE_MONOCHROME ->
                             draw_monochrome_cursor(f, ci.shape, si, frame_index,
                                                    cursor_index, x)
                        [] si.Type = DXGI_OUTDUPL_POINTER_SHAPE_TYPE_MASKED_COLOR ->
                             draw_masked_color_cursor(f, ci.shape, frame_index,
                                                      cursor_index)
                        [] OTHER -> f
                 ELSE f
            ELSE f
       ELSE f

RECURSIVE DrawCursorFrom(_, _, _, _, _)
\* the loops of draw_cursor in row-major order, from cursor pixel number k on
DrawCursorFrom(f, ci, w, h, k) ==
    LET cw == ci.shape_info.Width
        ch == ci.shape_info.Height
    IN IF cw <= 0 \/ k >= cw * ch THEN f
       ELSE DrawCursorFrom(DrawCursorPixel(f, ci, w, h, k % cw, k \div cw),
                           ci, w, h, k + 1)

\* Capturer::draw_cursor on the exposed buffer f
draw_cursor(f, ci, w, h) == DrawCursorFrom(f, ci, w, h, 0)

\* The indices (as in the source, from 0) at which the body of draw_cursor's
\* loops reads shape[..] and assigns frame[..] for the cursor pixel (x, y), on
\* a frame slice of flen bytes: the guards of lines 318-324 and of the
\* encoding's function.
CursorAccesses(ci, flen, w, h, x, y) ==
    LET si == ci.shape_info
        sh == ci.shape
        frame_x == ci.position[1] + x - si.HotSpot[1]
        frame_y == ci.position[2] + y - si.HotSpot[2]
        frame_index == (frame_y * w + frame_x) * 4
        cursor_index == y * si.Pitch + x * 4
        byte_index == cursor_index \div 8
        half == si.Height \div 2
        none == [reads |-> {}, writes |-> {}]
    IN IF ~(frame_x >= 0 /\ frame_y >= 0 /\ frame_x < w /\ frame_y < h) THEN none
       ELSE IF ~(frame_index + 3 < flen) THEN none
       ELSE IF ~(cursor_index + 3 < Len(sh)) THEN none
       ELSE IF si.Type \in {DXGI_OUTDUPL_POINTER_SHAPE_TYPE_COLOR,
                            DXGI_OUTDUPL_POINTER_SHAPE_TYPE_MASKED_COLOR}
       THEN IF sh[cursor_index + 3 + 1] > 0
            THEN [reads |-> {cursor_index + 3} \cup
                            {cursor_index + i : i \in {j \in 0 .. 2 :
                                 frame_index + j < flen /\ cursor_index + j < Len(sh)}},
                  writes |-> {frame_index + i : i \in {j \in 0 .. 2 :
                                 /\ frame_index + j < flen
                                 /\ cursor_index + j < Len(sh)
                                 /\ (si.Type = DXGI_OUTDUPL_POINTER_SHAPE_TYPE_COLOR
                                        \/ sh[cursor_index + j + 1] > 0)}}
                             \cup {frame_index + 3}]
            ELSE [reads |-> {cursor_index + 3}, writes |-> {}]
       ELSE IF si.Type = DXGI_OUTDUPL_POINTER_SHAPE_TYPE_MONOCHROME
       THEN IF byte_index < Len(sh) /\ byte_index + half < Len(sh)
            THEN [reads |-> {byte_index, byte_index + half},
                  writes |-> IF Bit(sh[byte_index + 1], 7 - (x % 8)) = 0
                             THEN {frame_index + i : i \in {j \in 0 .. 2 :
                                                          frame_index + j < flen}}
                             ELSE {}]
            ELSE none
       ELSE none


\* --------------------------------------------------------- capture session
NoInfo == [LastMouseUpdateTime |-> 0, Visible |-> 0, x |-> 0, y |-> 0,
           PointerShapeBufferSize |-> 0]

\* no tracker step of the pull in progress has used a report
NoneSeen == [visible |-> FALSE, last_time_stamp |-> 0,
             LastMouseUpdateTime |-> 0, Visible |-> 0, x |-> 0, y |-> 0]

\* DXGI_OUTDUPL_FRAME_INFO as far as load_frame reads it
FrameInfos ==
    [LastMouseUpdateTime : {0, 1, 2}, Visible : {0, 1}, x : {0, 1}, y : {0},
     PointerShapeBufferSize : {0} \cup {Len(sh.bytes) : sh \in PointerShapes}]

\* the timeout argument of frame()
Timeouts == {0, 1}

\* HRESULTs of the calls other than AcquireNextFrame
CallResults == {"S_OK", "DXGI_ERROR_ACCESS_LOST"}

\* DXGI_OUTPUT_DESC.DesktopCoordinates of the Display
OutputDescs == {[left |-> 0, top |-> 0], [left |-> 1, top |-> -1]}

\* what the platform puts into the mapped surface: one byte value throughout
PixelValues == {128}
Fill(n, v) == [i \in 1 .. n |-> v]

\* the fields before Capturer::new has run, and CursorInfo as new() builds it
\* (line 115) up to shape_info
ZeroCursor ==
    [position |-> <<0, 0>>, shape |-> <<>>,
     shape_info |-> [Type |-> 0, Width |-> 0, Height |-> 0, Pitch |-> 0,
                     HotSpot |-> <<0, 0>>],
     visible |-> FALSE, who_updated_position_last |-> 0, last_time_stamp |-> 0]

NoRefs == [frame |-> 0, texture |-> 0, readable |-> 0, surface |-> 0]

CapInit ==
    /\ pc = "start"
    /\ caller = "new"
    /\ pulls = 0
    /\ devRef = 0 /\ ctxRef = 0 /\ dupRef = 0
    /\ capture_mouse = FALSE
    /\ cursor_info = ZeroCursor
    /\ fastlane = FALSE
    /\ surface = NULL
    /\ data = <<>>
    /\ len = 0 /\ height = 0 /\ width = 0
    /\ output_number = 0 /\ offset_x = 0 /\ offset_y = 0
    /\ desc = [left |-> 0, top |-> 0]
    /\ frame = NULL
    /\ info = NoInfo
    /\ timeout = 0
    /\ frameHeld = FALSE
    /\ desktopMapped = FALSE
    /\ surfaceMapped = FALSE
    /\ nMapped = 0
    /\ handleRefs = NoRefs
    /\ pending = FALSE
    /\ acqAttempts = 0
    /\ lastHr = "S_OK"
    /\ loadResult = "none"
    /\ result = "none"
    /\ badRelease = FALSE
    /\ cursor0 = ZeroCursor
    /\ bits = <<>>
    /\ primeClean = TRUE
    /\ tr_prev = ZeroCursor
    /\ dropOrder = <<>>
    /\ seenBefore = NoneSeen

\* Mutant: a failed DuplicateOutput releases the device only.
NewCapturer_leak_context ==
    /\ pc = "start"
    /\ \E cm \in BOOLEAN, fl \in BOOLEAN, devOk \in BOOLEAN, hrDup \in HResults,
          si \in UninitShapeInfos, d \in OutputDescs :
         IF ~devOk
         THEN \* D3D11CreateDevice != S_OK
              /\ pc' = "failed"
              /\ result' = "Other"
              /\ UNCHANGED <<devRef, ctxRef, dupRef, capture_mouse, cursor_info,
                             fastlane, height, width, desc, cursor0, lastHr>>
         ELSE IF wrap_hresult(hrDup) # "Ok"
         THEN \* DuplicateOutput failed: device.Release(); context.Release()
              /\ pc' = "failed"
              /\ result' = wrap_hresult(hrDup)
              /\ lastHr' = hrDup
              /\ devRef' = (devRef + 1) - 1
              /\ ctxRef' = ctxRef + 1
              /\ UNCHANGED <<dupRef, capture_mouse, cursor_info, fastlane, height,
                             width, desc, cursor0>>
         ELSE /\ pc' = "load"
              /\ lastHr' = hrDup
              /\ devRef' = devRef + 1
              /\ ctxRef' = ctxRef + 1
              /\ dupRef' = dupRef + 1
              /\ capture_mouse' = cm
              /\ fastlane' = fl
              /\ height' = FrameHeight
              /\ width' = FrameWidth
              /\ desc' = d
              /\ cursor_info' = [ZeroCursor EXCEPT !.shape_info = si]
              /\ cursor0' = [ZeroCursor EXCEPT !.shape_info = si]
              /\ UNCHANGED result
    /\ caller' = "new"
    /\ timeout' = 0
    /\ UNCHANGED <<pulls, surface, data, len, output_number, offset_x, offset_y,
                   frame, info, frameHeld, desktopMapped, surfaceMapped, nMapped,
                   handleRefs, pending, acqAttempts, loadResult,
                   badRelease, bits, primeClean,
                   tr_prev, dropOrder, seenBefore>>
    /\ UNCHANGED enumVars

\* Capturer::new up to its call of load_frame (lines 62-127)
NewCapturer ==
    /\ pc = "start"
    /\ \E cm \in BOOLEAN, fl \in BOOLEAN, devOk \in BOOLEAN, hrDup \in HResults,
          si \in UninitShapeInfos, d \in OutputDescs :
         IF ~devOk
         THEN \* D3D11CreateDevice != S_OK
              /\ pc' = "failed"
              /\ result' = "Other"
              /\ UNCHANGED <<devRef, ctxRef, dupRef, capture_mouse, cursor_info,
                             fastlane, height, width, desc, cursor0, lastHr>>
         ELSE IF wrap_hresult(hrDup) # "Ok"
         THEN \* DuplicateOutput failed: device.Release(); context.Release()
              /\ pc' = "failed"
              /\ result' = wrap_hresult(hrDup)
              /\ lastHr' = hrDup
              /\ devRef' = (devRef + 1) - 1
              /\ ctxRef' = (ctxRef + 1) - 1
              /\ UNCHANGED <<dupRef, capture_mouse, cursor_info, fastlane, height,
                             width, desc, cursor0>>
         ELSE /\ pc' = "load"
              /\ lastHr' = hrDup
              /\ devRef' = devRef + 1
              /\ ctxRef' = ctxRef + 1
              /\ dupRef' = dupRef + 1
              /\ capture_mouse' = cm
              /\ fastlane' = fl
              /\ height' = FrameHeight
              /\ width' = FrameWidth
              /\ desc' = d
              /\ cursor_info' = [ZeroCursor EXCEPT !.shape_info = si]
              /\ cursor0' = [ZeroCursor EXCEPT !.shape_info = si]
              /\ UNCHANGED result
    /\ caller' = "new"
    /\ timeout' = 0
    /\ UNCHANGED <<pulls, surface, data, len, output_number, offset_x, offset_y,
                   frame, info, frameHeld, desktopMapped, surfaceMapped, nMapped,
                   handleRefs, pending, acqAttempts, loadResult,
                   badRelease, bits, primeClean,
                   tr_prev, dropOrder, seenBefore>>
    /\ UNCHANGED enumVars

\* Where load_frame's return value r takes its caller: new() ignores it and
\* returns the Capturer; frame() goes on to draw on Ok and returns the error
\* otherwise (the ? of line 287).
AfterLoadPc(r) == IF caller = "frame" /\ r = "Ok" THEN "draw" ELSE "idle"
AfterLoadResult(r) ==
    IF caller = "new" THEN "Ok" ELSE IF r = "Ok" THEN result ELSE r

\* the HRESULTs AcquireNextFrame is taken to return
AcquireResults == {"S_OK", "DXGI_ERROR_WAIT_TIMEOUT", "DXGI_ERROR_ACCESS_LOST",
                   "E_FAIL"}

\* IDXGIOutputDuplication::AcquireNextFrame: what it can return for a timeout,
\* with or without a new frame pending, with or without a frame still held
AcquireNextFrameResults(t, pend, heldNow) ==
    IF heldNow THEN {"DXGI_ERROR_INVALID_CALL"}
    ELSE IF ~pend /\ t = 0 THEN {"DXGI_ERROR_WAIT_TIMEOUT"}
    ELSE IF pend THEN AcquireResults \ {"DXGI_ERROR_WAIT_TIMEOUT"}
    ELSE AcquireResults

\* Mutant: a timed-out acquisition is tried a second time before returning.
LoadAcquire_retry ==
    /\ pc = "load"
    /\ data' = <<>>
    /\ \E pend \in BOOLEAN :
       \E hr1 \in AcquireNextFrameResults(timeout, pend, frameHeld) :
       \E hr \in (IF hr1 = "DXGI_ERROR_WAIT_TIMEOUT"
                  THEN AcquireNextFrameResults(timeout, pend, frameHeld)
                  ELSE {hr1}) :
         /\ pending' = (pend \/ hr = "S_OK")
         /\ lastHr' = hr
         /\ acqAttempts' = acqAttempts + (IF hr1 = "DXGI_ERROR_WAIT_TIMEOUT" THEN 2 ELSE 1)
         /\ IF hr = "S_OK"
            THEN /\ frameHeld' = TRUE
                 /\ frame' = pulls
                 /\ handleRefs' = [handleRefs EXCEPT !.frame = @ + 1]
                 /\ info' = NoInfo
                 /\ pc' = "cursor"
                 /\ UNCHANGED <<loadResult, result>>
            ELSE /\ loadResult' = wrap_hresult(hr)
                 /\ result' = AfterLoadResult(wrap_hresult(hr))
                 /\ pc' = AfterLoadPc(wrap_hresult(hr))
                 /\ frame' = NULL
                 /\ info' = NoInfo
                 /\ UNCHANGED <<frameHeld, handleRefs>>
    /\ bits' = <<>>
    /\ UNCHANGED <<caller, pulls, devRef, ctxRef, dupRef, capture_mouse,
                   cursor_info, fastlane, surface, len, height, width,
                   output_number, offset_x, offset_y, desc, timeout,
                   desktopMapped, surfaceMapped, nMapped, badRelease, cursor0,
                   tr_prev, dropOrder, seenBefore>>
    /\ primeClean' = IF caller = "new" /\ pc' = "idle"
                     THEN handleRefs'.frame = 0 /\ ~badRelease'
                     ELSE primeClean
    /\ UNCHANGED enumVars

\* load_frame, lines 134-142: data = null, then AcquireNextFrame and its ?
LoadAcquire ==
    /\ pc = "load"
    /\ data' = <<>>
    /\ \E pend \in BOOLEAN :
       \E hr \in AcquireNextFrameResults(timeout, pend, frameHeld) :
         /\ pending' = (pend \/ hr = "S_OK")
         /\ lastHr' = hr
         /\ acqAttempts' = acqAttempts + 1
         /\ IF hr = "S_OK"
            THEN /\ frameHeld' = TRUE
                 /\ frame' = pulls
                 /\ handleRefs' = [handleRefs EXCEPT !.frame = @ + 1]
                 /\ info' = NoInfo
                 /\ pc' = "cursor"
                 /\ UNCHANGED <<loadResult, result>>
            ELSE /\ loadResult' = wrap_hresult(hr)
                 /\ result' = AfterLoadResult(wrap_hresult(hr))
                 /\ pc' = AfterLoadPc(wrap_hresult(hr))
                 /\ frame' = NULL
                 /\ info' = NoInfo
                 /\ UNCHANGED <<frameHeld, handleRefs>>
    /\ bits' = <<>>
    /\ UNCHANGED <<caller, pulls, devRef, ctxRef, dupRef, capture_mouse,
                   cursor_info, fastlane, surface, len, height, width,
                   output_number, offset_x, offset_y, desc, timeout,
                   desktopMapped, surfaceMapped, nMapped, badRelease, cursor0,
                   tr_prev, dropOrder, seenBefore>>
    /\ primeClean' = IF caller = "new" /\ pc' = "idle"
                     THEN handleRefs'.frame = 0 /\ ~badRelease'
                     ELSE primeClean
    /\ UNCHANGED enumVars

\* what the cache held of visibility and timestamp before the position update
\* of lines 151-178, and the position fields of the report it was given
SeenOf(ci, fi) ==
    [visible |-> ci.visible, last_time_stamp |-> ci.last_time_stamp,
     LastMouseUpdateTime |-> fi.LastMouseUpdateTime, Visible |-> fi.Visible,
     x |-> fi.x, y |-> fi.y]

\* The DXGI_OUTDUPL_FRAME_INFO that AcquireNextFrame filled in (line 140), as
\* load_frame reads it: any report, or the one report a run has fixed in info
DeliveredInfos == IF info = NoInfo THEN FrameInfos ELSE {info}

\* Mutant: the shape is fetched only when the position update was accepted.
LoadCursor_shape_if_accepted ==
    /\ pc = "cursor"
    /\ IF ~capture_mouse
       THEN /\ pc' = "map"
            /\ UNCHANGED <<cursor_info, frame, info, seenBefore, loadResult, result>>
       ELSE \E fi \in DeliveredInfos :
            IF fi.LastMouseUpdateTime = 0
            THEN /\ pc' = "map"
                 /\ UNCHANGED <<cursor_info, frame, info, seenBefore, loadResult, result>>
            ELSE LET ci1 == UpdateCursorPosition(cursor_info, fi, output_number,
                                                 offset_x, offset_y, desc)
                     accepted ==
                         ~(\/ fi.Visible = 0
                              /\ cursor_info.who_updated_position_last # output_number
                           \/ /\ fi.Visible # 0 /\ cursor_info.visible
                              /\ cursor_info.who_updated_position_last # output_number
                              /\ cursor_info.last_time_stamp > fi.LastMouseUpdateTime)
                     size == IF accepted THEN fi.PointerShapeBufferSize ELSE 0
                 IN IF size = 0
                    THEN /\ cursor_info' = ci1
                         /\ seenBefore' = SeenOf(cursor_info, fi)
                         /\ UNCHANGED info
                         /\ pc' = "map"
                         /\ UNCHANGED <<frame, loadResult, result>>
                    ELSE \E sh \in {p \in PointerShapes : Len(p.bytes) = size},
                            hr \in CallResults :
                           LET grown == GrowShape(ci1.shape, size) IN
                           IF hr = "S_OK"
                           THEN /\ cursor_info' =
                                     [ci1 EXCEPT !.shape = StoreShape(grown, sh.bytes),
                                                 !.shape_info = sh.shape_info]
                                /\ seenBefore' = SeenOf(cursor_info, fi)
                                /\ UNCHANGED info
                                /\ pc' = "map"
                                /\ UNCHANGED <<frame, loadResult, result>>
                           ELSE \* the ? of line 194: the acquired resource is
                                \* not released on this path
                                /\ cursor_info' = [ci1 EXCEPT !.shape = grown]
                                /\ UNCHANGED <<info, seenBefore>>
                                /\ loadResult' = wrap_hresult(hr)
                                /\ result' = AfterLoadResult(wrap_hresult(hr))
                                /\ pc' = AfterLoadPc(wrap_hresult(hr))
                                /\ frame' = NULL
    /\ UNCHANGED <<caller, pulls, devRef, ctxRef, dupRef, capture_mouse, fastlane,
                   surface, data, len, height, width, output_number, offset_x,
                   offset_y, desc, timeout, frameHeld, desktopMapped,
                   surfaceMapped, nMapped, handleRefs, pending, acqAttempts, lastHr,
                   badRelease, cursor0, bits, tr_prev, dropOrder>>
    /\ primeClean' = IF caller = "new" /\ pc' = "idle"
                     THEN handleRefs'.frame = 0 /\ ~badRelease'
                     ELSE primeClean
    /\ UNCHANGED enumVars

\* load_frame, lines 144-197: the cursor tracker
LoadCursor ==
    /\ pc = "cursor"
    /\ IF ~capture_mouse
       THEN /\ pc' = "map"
            /\ UNCHANGED <<cursor_info, frame, info, seenBefore, loadResult, result>>
       ELSE \E fi \in DeliveredInfos :
            IF fi.LastMouseUpdateTime = 0
            THEN /\ pc' = "map"
                 /\ UNCHANGED <<cursor_info, frame, info, seenBefore, loadResult, result>>
            ELSE LET ci1 == UpdateCursorPosition(cursor_info, fi, output_number,
                                                 offset_x, offset_y, desc)
                     size == fi.PointerShapeBufferSize
                 IN IF size = 0
                    THEN /\ cursor_info' = ci1
                         /\ seenBefore' = SeenOf(cursor_info, fi)
                         /\ UNCHANGED info
                         /\ pc' = "map"
                         /\ UNCHANGED <<frame, loadResult, result>>
                    ELSE \E sh \in {p \in PointerShapes : Len(p.bytes) = size},
                            hr \in CallResults :
                           LET grown == GrowShape(ci1.shape, size) IN
                           IF hr = "S_OK"
                           THEN /\ cursor_info' =
                                     [ci1 EXCEPT !.shape = StoreShape(grown, sh.bytes),
                                                 !.shape_info = sh.shape_info]
                                /\ seenBefore' = SeenOf(cursor_info, fi)
                                /\ UNCHANGED info
                                /\ pc' = "map"
                                /\ UNCHANGED <<frame, loadResult, result>>
                           ELSE \* the ? of line 194: the acquired resource is
                                \* not released on this path
                                /\ cursor_info' = [ci1 EXCEPT !.shape = grown]
                                /\ UNCHANGED <<info, seenBefore>>
                                /\ loadResult' = wrap_hresult(hr)
                                /\ result' = AfterLoadResult(wrap_hresult(hr))
                                /\ pc' = AfterLoadPc(wrap_hresult(hr))
                                /\ frame' = NULL
    /\ UNCHANGED <<caller, pulls, devRef, ctxRef, dupRef, capture_mouse, fastlane,
                   surface, data, len, height, width, output_number, offset_x,
                   offset_y, desc, timeout, frameHeld, desktopMapped,
                   surfaceMapped, nMapped, handleRefs, pending, acqAttempts, lastHr,
                   badRelease, cursor0, bits, tr_prev, dropOrder>>
    /\ primeClean' = IF caller = "new" /\ pc' = "idle"
                     THEN handleRefs'.frame = 0 /\ ~badRelease'
                     ELSE primeClean
    /\ UNCHANGED enumVars

\* Capturer::ohgodwhat on the acquired resource, CreateTexture2D returning hr:
\* the references outstanding afterwards, the surface pointer returned (NULL
\* with an Err), the result, and whether Release was called on the null
\* readable (line 250).
ohgodwhat(r, hr, id) ==
    LET queried == [r EXCEPT !.texture = @ + 1]      \* QueryInterface(ID3D11Texture2D)
    IN IF hr # "S_OK"
       THEN [refs |-> [queried EXCEPT !.frame = @ - 1, !.texture = @ - 1],
             surface |-> NULL, res |-> wrap_hresult(hr), nullRelease |-> TRUE]
       ELSE \* readable created; QueryInterface(IDXGISurface); CopyResource;
            \* frame, texture and readable released
            [refs |-> [queried EXCEPT !.frame = @ - 1, !.texture = @ - 1,
                                      !.readable = (@ + 1) - 1, !.surface = @ + 1],
             surface |-> id, res |-> "Ok", nullRelease |-> FALSE]

\* load_frame, lines 199-222: map the desktop surface, or copy to a staging
\* surface and map that
LoadMap ==
    /\ pc = "map"
    /\ IF fastlane
       THEN \E hr \in CallResults :
              \* MapDesktopSurface; frame.Release()
              /\ handleRefs' = [handleRefs EXCEPT !.frame = @ - 1]
              /\ IF hr # "S_OK"
                 THEN /\ UNCHANGED <<data, len, bits, desktopMapped>>
                 ELSE \E p \in {4 * width, 4 * width + 4}, v \in PixelValues :
                      /\ data' = Fill(height * p, v)
                      /\ bits' = Fill(height * p, v)
                      /\ len' = height * p
                      /\ desktopMapped' = TRUE
              /\ loadResult' = wrap_hresult(hr)
              /\ result' = AfterLoadResult(wrap_hresult(hr))
              /\ pc' = AfterLoadPc(wrap_hresult(hr))
              /\ UNCHANGED <<surface, surfaceMapped, nMapped, badRelease>>
       ELSE \E hrCreate \in CallResults :
              LET o == ohgodwhat(handleRefs, hrCreate, pulls) IN
              /\ handleRefs' = o.refs
              /\ surface' = o.surface
              /\ badRelease' = (badRelease \/ o.nullRelease)
              /\ UNCHANGED desktopMapped
              /\ IF o.res # "Ok"
                 THEN \* Release through the null readable is undefined
                      \* behaviour: the process dies there, or goes on to
                      \* return the error
                      \E crash \in BOOLEAN :
                      /\ loadResult' = IF crash THEN loadResult ELSE o.res
                      /\ result' = IF crash THEN result ELSE AfterLoadResult(o.res)
                      /\ pc' = IF crash THEN "crashed" ELSE AfterLoadPc(o.res)
                      /\ surfaceMapped' = FALSE
                      /\ UNCHANGED <<data, len, bits, nMapped>>
                 ELSE \E hrMap \in CallResults :
                      IF hrMap # "S_OK"
                      THEN \* the ? of line 217: the unmapped surface stays in
                           \* self.surface
                           /\ loadResult' = wrap_hresult(hrMap)
                           /\ result' = AfterLoadResult(wrap_hresult(hrMap))
                           /\ pc' = AfterLoadPc(wrap_hresult(hrMap))
                           /\ surfaceMapped' = FALSE
                           /\ UNCHANGED <<data, len, bits, nMapped>>
                      ELSE \E p \in {4 * width, 4 * width + 4}, v \in PixelValues :
                           /\ surfaceMapped' = TRUE
                           /\ nMapped' = nMapped + 1
                           /\ data' = Fill(height * p, v)
                           /\ bits' = Fill(height * p, v)
                           /\ len' = height * p
                           /\ loadResult' = "Ok"
                           /\ result' = AfterLoadResult("Ok")
                           /\ pc' = AfterLoadPc("Ok")
    /\ frame' = NULL
    /\ seenBefore' = NoneSeen
    /\ UNCHANGED <<caller, pulls, devRef, ctxRef, dupRef, capture_mouse,
                   cursor_info, info, fastlane, height, width, output_number, offset_x,
                   offset_y, desc, timeout, frameHeld, pending, acqAttempts, lastHr,
                   cursor0, tr_prev, dropOrder>>
    /\ primeClean' = IF caller = "new" /\ pc' = "idle"
                     THEN handleRefs'.frame = 0 /\ ~badRelease'
                     ELSE primeClean
    /\ UNCHANGED enumVars

\* Mutant: the cursor is drawn whenever tracking is on, visible or not.
FrameDraw_ignore_visible ==
    /\ pc = "draw"
    /\ data' = IF capture_mouse
               THEN draw_cursor(data, cursor_info, width, height)
               ELSE data
    /\ result' = "Ok"
    /\ pc' = "idle"
    /\ UNCHANGED <<caller, pulls, devRef, ctxRef, dupRef, capture_mouse,
                   cursor_info, fastlane, surface, len, height, width,
                   output_number, offset_x, offset_y, desc, frame, info, timeout,
                   frameHeld, desktopMapped, surfaceMapped, nMapped, handleRefs,
                   pending, acqAttempts, lastHr, loadResult, badRelease, cursor0,
                   bits, primeClean,
                   tr_prev, dropOrder, seenBefore>>
    /\ UNCHANGED enumVars

\* frame(), lines 288-293: the slice over (data, len), the cursor, Ok(slice)
FrameDraw ==
    /\ pc = "draw"
    /\ data' = IF capture_mouse /\ cursor_info.visible
               THEN draw_cursor(data, cursor_info, width, height)
               ELSE data
    /\ result' = "Ok"
    /\ pc' = "idle"
    /\ UNCHANGED <<caller, pulls, devRef, ctxRef, dupRef, capture_mouse,
                   cursor_info, fastlane, surface, len, height, width,
                   output_number, offset_x, offset_y, desc, frame, info, timeout,
                   frameHeld, desktopMapped, surfaceMapped, nMapped, handleRefs,
                   pending, acqAttempts, lastHr, loadResult, badRelease, cursor0,
                   bits, primeClean,
                   tr_prev, dropOrder, seenBefore>>
    /\ UNCHANGED enumVars

\* Mutant: frame() without the call of ReleaseFrame.
FrameBegin_no_release_frame ==
    /\ pc = "idle"
    /\ pulls < MaxPulls
    /\ IF fastlane
       THEN /\ desktopMapped' = FALSE
            /\ UNCHANGED <<surface, surfaceMapped, nMapped, handleRefs>>
       ELSE IF surface # NULL
       THEN /\ surfaceMapped' = FALSE
            /\ nMapped' = IF surfaceMapped THEN nMapped - 1 ELSE nMapped
            /\ handleRefs' = [handleRefs EXCEPT !.surface = @ - 1]
            /\ surface' = NULL
            /\ UNCHANGED desktopMapped
       ELSE UNCHANGED <<desktopMapped, surface, surfaceMapped, nMapped, handleRefs>>
    /\ UNCHANGED frameHeld
    /\ \E t \in Timeouts : timeout' = t
    /\ pulls' = pulls + 1
    /\ acqAttempts' = 0
    /\ caller' = "frame"
    /\ pc' = "load"
    /\ UNCHANGED <<devRef, ctxRef, dupRef, capture_mouse, cursor_info, fastlane,
                   data, len, height, width, output_number, offset_x, offset_y,
                   desc, frame, info, pending, lastHr, loadResult, result,
                   badRelease, cursor0, bits, primeClean,
                   tr_prev, dropOrder, seenBefore>>
    /\ UNCHANGED enumVars

\* Mutant: frame() without unmapping what the previous pull exposed.
FrameBegin_no_unmap ==
    /\ pc = "idle"
    /\ pulls < MaxPulls
    /\ UNCHANGED <<desktopMapped, surface, surfaceMapped, nMapped, handleRefs>>
    /\ frameHeld' = FALSE
    /\ \E t \in Timeouts : timeout' = t
    /\ pulls' = pulls + 1
    /\ acqAttempts' = 0
    /\ caller' = "frame"
    /\ pc' = "load"
    /\ UNCHANGED <<devRef, ctxRef, dupRef, capture_mouse, cursor_info, fastlane,
                   data, len, height, width, output_number, offset_x, offset_y,
                   desc, frame, info, pending, lastHr, loadResult, result,
                   badRelease, cursor0, bits, primeClean,
                   tr_prev, dropOrder, seenBefore>>
    /\ UNCHANGED enumVars

\* frame(timeout), lines 273-287: unmap what the previous pull exposed,
\* ReleaseFrame, then load_frame(timeout)
FrameBegin ==
    /\ pc = "idle"
    /\ pulls < MaxPulls
    /\ IF fastlane
       THEN \* UnMapDesktopSurface
            /\ desktopMapped' = FALSE
            /\ UNCHANGED <<surface, surfaceMapped, nMapped, handleRefs>>
       ELSE IF surface # NULL
       THEN \* surface.Unmap(); surface.Release(); surface = null
            /\ surfaceMapped' = FALSE
            /\ nMapped' = IF surfaceMapped THEN nMapped - 1 ELSE nMapped
            /\ handleRefs' = [handleRefs EXCEPT !.surface = @ - 1]
            /\ surface' = NULL
            /\ UNCHANGED desktopMapped
       ELSE UNCHANGED <<desktopMapped, surface, surfaceMapped, nMapped, handleRefs>>
    /\ frameHeld' = FALSE                     \* ReleaseFrame
    /\ \E t \in Timeouts : timeout' = t
    /\ pulls' = pulls + 1
    /\ acqAttempts' = 0
    /\ caller' = "frame"
    /\ pc' = "load"
    /\ UNCHANGED <<devRef, ctxRef, dupRef, capture_mouse, cursor_info, fastlane,
                   data, len, height, width, output_number, offset_x, offset_y,
                   desc, frame, info, pending, lastHr, loadResult, result,
                   badRelease, cursor0, bits, primeClean,
                   tr_prev, dropOrder, seenBefore>>
    /\ UNCHANGED enumVars

\* Drop for Capturer
DropCapturer ==
    /\ pc = "idle"
    /\ IF surface # NULL
       THEN /\ surfaceMapped' = FALSE
            /\ nMapped' = IF surfaceMapped THEN nMapped - 1 ELSE nMapped
            /\ handleRefs' = [handleRefs EXCEPT !.surface = @ - 1]
            /\ dropOrder' = <<"surface", "duplication", "device", "context">>
       ELSE /\ UNCHANGED <<surfaceMapped, nMapped, handleRefs>>
            /\ dropOrder' = <<"duplication", "device", "context">>
    /\ dupRef' = dupRef - 1
    /\ devRef' = devRef - 1
    /\ ctxRef' = ctxRef - 1
    /\ pc' = "dropped"
    /\ UNCHANGED <<caller, pulls, capture_mouse, cursor_info, fastlane, surface,
                   data, len, height, width, output_number, offset_x, offset_y,
                   desc, frame, info, timeout, frameHeld, desktopMapped, pending,
                   acqAttempts, lastHr, loadResult, result, badRelease, cursor0,
                   bits, primeClean, tr_prev, seenBefore>>
    /\ UNCHANGED enumVars

\* no enumerator is part of a capture session's run
EnumQuiet ==
    /\ adapters = <<>>
    /\ factoryRef = 0
    /\ adapterRef = [a \in AdapterIds |-> 0]
    /\ adapter = NULL
    /\ nadapter = 0
    /\ ndisplay = 0
    /\ enumAlive = FALSE
    /\ ended = FALSE
    /\ yielded = <<>>
    /\ held = [a \in AdapterIds |-> 0]
    /\ innerRefs = 0

Init == CapInit /\ EnumQuiet

Next ==
    \/ NewCapturer
    \/ LoadAcquire
    \/ LoadCursor
    \/ LoadMap
    \/ FrameDraw
    \/ FrameBegin
    \/ DropCapturer

Spec == Init /\ [][Next]_vars

\* no capture session is part of an enumeration
InitEnumerator == InitEnum /\ CapInit

SpecEnum == InitEnumerator /\ [][NextEnum]_vars

\* ------------------------------------------------- claims on the enumerator
\* Number of leading outputs of an adapter that pass the capability query:
\* the outputs the walk of one adapter checks and hands out before the
\* adapter is exhausted or the first query fails.
RECURSIVE PassingPrefix(_)
PassingPrefix(outs) ==
    IF outs = <<>> \/ ~Head(outs) THEN 0 ELSE 1 + PassingPrefix(Tail(outs))

\* The walk over all adapters by increasing index, each by increasing output
\* index up to its first failing output.
RECURSIVE WalkFrom(_, _)
WalkFrom(cfg, a) ==
    IF a >= Len(cfg) THEN <<>>
    ELSE [o \in 1 .. PassingPrefix(cfg[a + 1]) |-> <<a, o - 1>>] \o WalkFrom(cfg, a + 1)

IsPrefix(s, t) == Len(s) <= Len(t) /\ \A i \in 1 .. Len(s) : s[i] = t[i]

\* C5 (as claimed): once next() has returned None, the number of Display
\* handles handed out equals the sum, over ALL adapters, of the outputs that
\* pass the capability check. "Pass the check" is read in the way most
\* favourable to the code: the outputs a complete walk checks and finds
\* capable (each adapter's outputs before its first failing one); the count
\* of all capable outputs is never smaller, so a violation of this reading
\* violates the other one too.
C5_CountIsSumOverAllAdapters ==
    ended => Len(yielded) = Len(WalkFrom(adapters, 0))

\* C6 (as claimed): the sequence ends only when advancing the adapter index
\* yields no adapter at all, so when next() has returned None the current
\* adapter index is past the last existing adapter.
C6_EndsOnlyWhenNoAdapter ==
    ended => nadapter >= Len(adapters)

\* C7: the Display handles are handed out in strictly increasing
\* (adapter, output) order, each adapter's outputs from index 0 without gaps,
\* and never an output at or after the first failing output of its adapter:
\* the handles handed out so far are a prefix of the walk.
C7_YieldedInWalkOrder ==
    /\ IsPrefix(yielded, WalkFrom(adapters, 0))
    /\ \A i \in 1 .. Len(yielded) : \A j \in 1 .. Len(yielded) :
         i < j => \/ yielded[i][1] < yielded[j][1]
                  \/ yielded[i][1] = yielded[j][1] /\ yielded[i][2] < yielded[j][2]
    /\ \A i \in 1 .. Len(yielded) : \A k \in 0 .. yielded[i][2] :
         IsCapable(adapters, yielded[i][1], k)

\* C7 witness: an adapter with a capable output behind a failing one was
\* abandoned, and a Display of a later adapter was handed out after it.
C7_Witness ==
    /\ Len(yielded) >= 1
    /\ \E a \in AdapterIds :
         /\ a < yielded[Len(yielded)][1]
         /\ a < Len(adapters)
         /\ \E k \in 0 .. (MaxOutputs - 1) : \E j \in 0 .. (MaxOutputs - 1) :
              /\ k < j /\ HasOutput(adapters, a, j)
              /\ ~IsCapable(adapters, a, k) /\ IsCapable(adapters, a, j)

\* C8: an adapter's reference count is the number of its live holders: the
\* enumerator while the adapter is its current one, plus each Display of
\* that adapter not yet dropped; it is never negative and is zero when no
\* holder is left.
C8_AdapterRefsAreHolders ==
    \A a \in AdapterIds :
        /\ adapterRef[a] = held[a] + (IF enumAlive /\ adapter = a THEN 1 ELSE 0)
        /\ adapterRef[a] >= 0
        /\ (held[a] = 0 /\ ~(enumAlive /\ adapter = a)) => adapterRef[a] = 0

\* C8 witness: the enumerator was dropped on its current adapter, one Display
\* of that adapter was dropped and another one is still alive.
C8_Witness ==
    /\ ~enumAlive
    /\ adapter # NULL
    /\ held[adapter] = 1
    /\ Cardinality({i \in 1 .. Len(yielded) : yielded[i][1] = adapter}) = 2

\* ------------------------------------------- the tracker update on its own
\* The cached cursor state, the session's output identifier and offsets and
\* the reported update range over small sets; the update is applied once.
TrackerCursors ==
    {[ZeroCursor EXCEPT !.position = <<3, 3>>, !.visible = v,
                        !.who_updated_position_last = w, !.last_time_stamp = t] :
        v \in BOOLEAN, w \in {0, 1}, t \in 0 .. 3}

TrackerInfos ==
    [LastMouseUpdateTime : 1 .. 3, Visible : {0, 1}, x : {0, 1}, y : {0},
     PointerShapeBufferSize : {0}]

InitTracker ==
    /\ EnumQuiet
    /\ pc = "cursor"
    /\ caller = "frame"
    /\ pulls = 1
    /\ devRef = 1 /\ ctxRef = 1 /\ dupRef = 1
    /\ capture_mouse = TRUE
    /\ cursor_info \in TrackerCursors
    /\ fastlane = FALSE
    /\ surface = NULL
    /\ data = <<>>
    /\ len = 0 /\ height = FrameHeight /\ width = FrameWidth
    /\ output_number \in {0, 1}
    /\ offset_x \in {0, 1}
    /\ offset_y \in {0, 1}
    /\ desc \in OutputDescs
    /\ frame = 1
    /\ info \in TrackerInfos
    /\ timeout = 0
    /\ frameHeld = TRUE
    /\ desktopMapped = FALSE
    /\ surfaceMapped = FALSE
    /\ nMapped = 0
    /\ handleRefs = [NoRefs EXCEPT !.frame = 1]
    /\ pending = TRUE
    /\ acqAttempts = 1
    /\ lastHr = "S_OK"
    /\ loadResult = "none"
    /\ result = "none"
    /\ badRelease = FALSE
    /\ cursor0 = ZeroCursor
    /\ bits = <<>>
    /\ primeClean = TRUE
    /\ tr_prev = cursor_info
    /\ dropOrder = <<>>
    /\ seenBefore = NoneSeen

\* load_frame, lines 150-178, on the report in info
TrackerUpdate ==
    /\ pc = "cursor"
    /\ info.LastMouseUpdateTime # 0
    /\ cursor_info' = UpdateCursorPosition(cursor_info, info, output_number,
                                           offset_x, offset_y, desc)
    /\ tr_prev' = cursor_info
    /\ pc' = "tracked"
    /\ UNCHANGED <<caller, pulls, devRef, ctxRef, dupRef, capture_mouse, fastlane,
                   surface, data, len, height, width, output_number, offset_x,
                   offset_y, desc, frame, info, timeout, frameHeld, desktopMapped,
                   surfaceMapped, nMapped, handleRefs, pending, acqAttempts, lastHr,
                   loadResult, result, badRelease, cursor0, bits, primeClean,
                   dropOrder, seenBefore>>
    /\ UNCHANGED enumVars

NextTracker == TrackerUpdate

SpecTracker == InitTracker /\ [][NextTracker]_vars

\* ------------------------------------------- the compositor on its own
\* 1-bit-per-pixel rows of a monochrome shape two pixels wide: the two
\* leading bits of the row's byte
MonoRows == {0, 64, 128, 192}

\* Monochrome pointer shapes of 2 x 2 pixels as GetFramePointerShape reports
\* them: Height counts the rows of both masks, the AND mask rows come first
MonoShapes ==
    {[shape_info |-> [Type |-> DXGI_OUTDUPL_POINTER_SHAPE_TYPE_MONOCHROME,
                      Width |-> 2, Height |-> 4, Pitch |-> 1, HotSpot |-> <<0, 0>>],
      bytes |-> <<a0, a1, x0, x1>>] : a0 \in MonoRows, a1 \in MonoRows,
                                      x0 \in MonoRows, x1 \in MonoRows}

\* a colour shape whose buffer holds fewer rows than its metadata says
ShortShape ==
    [shape_info |-> [Type |-> DXGI_OUTDUPL_POINTER_SHAPE_TYPE_COLOR, Width |-> 2,
                     Height |-> 2, Pitch |-> 8, HotSpot |-> <<0, 1>>],
     bytes |-> <<1, 2, 3, 255, 4, 5, 6, 255, 7, 8, 9, 255>>]

DrawShapes == {ColorShape, MaskedShape, ShortShape} \cup MonoShapes

\* cached cursor states with a visible cursor at every position from one
\* pixel before the frame to one pixel after it
DrawCursors ==
    {[position |-> <<px, py>>, shape |-> s.bytes, shape_info |-> s.shape_info,
      visible |-> TRUE, who_updated_position_last |-> 0, last_time_stamp |-> 1] :
        px \in -1 .. FrameWidth, py \in -1 .. FrameHeight, s \in DrawShapes}

\* Row pitches the platform reports for a mapped surface (lines 209, 220)
RowPitches == {4 * FrameWidth, 4 * FrameWidth + 4}

\* A fastlane session inside frame(), load_frame having returned Ok (line
\* 287): everything but the exposed buffer and the cached cursor
DrawnSession ==
    /\ EnumQuiet
    /\ pc = "draw"
    /\ caller = "frame"
    /\ pulls = 1
    /\ devRef = 1 /\ ctxRef = 1 /\ dupRef = 1
    /\ capture_mouse = TRUE
    /\ fastlane = TRUE
    /\ surface = NULL
    /\ height = FrameHeight /\ width = FrameWidth
    /\ output_number = 0 /\ offset_x = 0 /\ offset_y = 0
    /\ desc = [left |-> 0, top |-> 0]
    /\ frame = NULL
    /\ info = NoInfo
    /\ timeout = 1
    /\ frameHeld = TRUE
    /\ desktopMapped = TRUE
    /\ surfaceMapped = FALSE
    /\ nMapped = 0
    /\ handleRefs = NoRefs
    /\ pending = TRUE
    /\ acqAttempts = 1
    /\ lastHr = "S_OK"
    /\ loadResult = "Ok"
    /\ result = "Ok"
    /\ badRelease = FALSE
    /\ cursor0 = ZeroCursor
    /\ primeClean = TRUE
    /\ tr_prev = ZeroCursor
    /\ dropOrder = <<>>
    /\ seenBefore = NoneSeen

\* frame() is about to draw a cached cursor on a mapped surface of one value
InitDraw ==
    /\ DrawnSession
    /\ cursor_info \in DrawCursors
    /\ \E p \in RowPitches, v \in PixelValues :
         /\ len = FrameHeight * p
         /\ data = Fill(FrameHeight * p, v)
         /\ bits = Fill(FrameHeight * p, v)

NextDraw == FrameDraw

SpecDraw == InitDraw /\ [][NextDraw]_vars

\* Byte values at and next to the ends, the middle and the quarters of the
\* range of a u8
ByteSamples == {0, 1, 2, 63, 64, 127, 128, 129, 191, 192, 254, 255}

\* One-pixel shapes of the two 4-bytes-per-pixel encodings, B, G, R, A
BlendShapes ==
    {[shape_info |-> [Type |-> t, Width |-> 1, Height |-> 1, Pitch |-> 4,
                      HotSpot |-> <<0, 0>>],
      bytes |-> <<s, 255 - s, s, a>>] :
        t \in {DXGI_OUTDUPL_POINTER_SHAPE_TYPE_COLOR,
               DXGI_OUTDUPL_POINTER_SHAPE_TYPE_MASKED_COLOR},
        s \in ByteSamples, a \in 0 .. 255}

\* frame() is about to draw a one-pixel cursor at the frame's first pixel,
\* whose bytes are d, d, 255 - d, d
InitBlend ==
    /\ DrawnSession
    /\ \E s \in BlendShapes :
         cursor_info = [position |-> <<0, 0>>, shape |-> s.bytes,
                        shape_info |-> s.shape_info, visible |-> TRUE,
                        who_updated_position_last |-> 0, last_time_stamp |-> 1]
    /\ \E d \in ByteSamples, v \in PixelValues :
         LET f == [i \in 1 .. (FrameHeight * 4 * FrameWidth) |->
                      IF i = 3 THEN 255 - d ELSE IF i <= 4 THEN d ELSE v]
         IN /\ len = FrameHeight * 4 * FrameWidth
            /\ data = f
            /\ bits = f

SpecBlend == InitBlend /\ [][NextDraw]_vars

\* ------------------------------------- the tracker step with shape fetch
\* cached cursor states: nothing cached yet, or a shape of 4, 8 or 12 bytes
ShapeCursors ==
    {[position |-> <<3, 3>>, shape |-> c.bytes, shape_info |-> c.shape_info,
      visible |-> v, who_updated_position_last |-> w, last_time_stamp |-> t] :
        v \in BOOLEAN, w \in {0, 1}, t \in {0, 3},
        c \in {[shape_info |-> ZeroCursor.shape_info, bytes |-> <<>>],
               [shape_info |-> [Type |-> DXGI_OUTDUPL_POINTER_SHAPE_TYPE_MONOCHROME,
                                Width |-> 2, Height |-> 4, Pitch |-> 1,
                                HotSpot |-> <<0, 0>>],
                bytes |-> <<0, 0, 192, 192>>],
               MaskedShape, ShortShape}}

\* reports with a nonzero LastMouseUpdateTime
ShapeInfos ==
    [LastMouseUpdateTime : {1, 2}, Visible : {0, 1}, x : {0, 1}, y : {0},
     PointerShapeBufferSize : {0} \cup {Len(sh.bytes) : sh \in PointerShapes}]

\* load_frame has acquired a frame (line 142) whose report is info
InitShape ==
    /\ EnumQuiet
    /\ pc = "cursor"
    /\ caller = "frame"
    /\ pulls = 1
    /\ devRef = 1 /\ ctxRef = 1 /\ dupRef = 1
    /\ capture_mouse = TRUE
    /\ cursor_info \in ShapeCursors
    /\ fastlane = FALSE
    /\ surface = NULL
    /\ data = <<>>
    /\ len = 0 /\ height = FrameHeight /\ width = FrameWidth
    /\ output_number \in {0, 1}
    /\ offset_x = 0
    /\ offset_y = 0
    /\ desc = [left |-> 0, top |-> 0]
    /\ frame = 1
    /\ info \in ShapeInfos
    /\ timeout = 0
    /\ frameHeld = TRUE
    /\ desktopMapped = FALSE
    /\ surfaceMapped = FALSE
    /\ nMapped = 0
    /\ handleRefs = [NoRefs EXCEPT !.frame = 1]
    /\ pending = TRUE
    /\ acqAttempts = 1
    /\ lastHr = "S_OK"
    /\ loadResult = "none"
    /\ result = "none"
    /\ badRelease = FALSE
    /\ cursor0 = ZeroCursor
    /\ bits = <<>>
    /\ primeClean = TRUE
    /\ tr_prev = cursor_info
    /\ dropOrder = <<>>
    /\ seenBefore = NoneSeen

NextShape == LoadCursor

SpecShape == InitShape /\ [][NextShape]_vars

\* ------------------------------------------ claims on the capture session
\* C1: AcquireNextFrame is only ever issued with no frame in flight: whenever
\* load_frame is about to acquire, every frame acquired before has been
\* released with ReleaseFrame.
C1_NoAcquireWhileFrameHeld ==
    pc = "load" => ~frameHeld

\* C1 witness: a pull is about to acquire after an earlier pull acquired a
\* frame and then failed.
C1_Witness ==
    /\ pc = "load" /\ caller = "frame" /\ pulls = 2
    /\ lastHr = "S_OK" /\ loadResult \notin {"Ok", "none"}
    /\ ~frameHeld

\* C2: when load_frame is about to acquire, nothing exposed earlier is still
\* mapped: the desktop surface is unmapped, no staging surface is mapped, and
\* the session's staging surface has been released; and never more than one
\* staging surface is mapped.
C2_UnmappedBeforeAcquire ==
    /\ nMapped <= 1
    /\ pc = "load" =>
         /\ ~desktopMapped
         /\ nMapped = 0 /\ ~surfaceMapped
         /\ surface = NULL /\ handleRefs.surface = 0

\* C2 witness: on the readback path the second pull of a session is about to
\* acquire after a pull that mapped a surface.
C2_Witness ==
    /\ pc = "load" /\ caller = "frame" /\ pulls = 2
    /\ ~fastlane /\ loadResult = "Ok"
    /\ nMapped = 0

\* C3 (as claimed): in the calls of frame() on a session whose construction
\* left nothing behind, no Release goes through an absent handle, between
\* pulls every handle obtained by a pull has been released except the one
\* staging surface the session still holds, and a successful pull exposes a
\* non-empty buffer.
C3_NoLeakNoBadRelease ==
    (caller = "frame" /\ primeClean) =>
        /\ ~badRelease
        /\ pc \in {"idle", "load", "dropped"} =>
             /\ handleRefs.frame = 0
             /\ handleRefs.texture = 0
             /\ handleRefs.readable = 0
             /\ handleRefs.surface = (IF surface # NULL /\ pc # "dropped" THEN 1 ELSE 0)
        /\ (pc = "idle" /\ result = "Ok") => (len > 0 /\ Len(data) = len)

\* C4: a pull makes exactly one acquisition attempt; when the attempt fails
\* the pull returns the error kind wrap_hresult gives that HRESULT and exposes
\* no buffer; with timeout 0 and no frame pending it returns TimedOut.
C4_OneAttemptErrorReturned ==
    (pc = "idle" /\ caller = "frame") =>
        /\ acqAttempts = 1
        /\ lastHr # "S_OK" =>
             /\ result = wrap_hresult(lastHr)
             /\ result # "Ok"
             /\ data = <<>>
        /\ (timeout = 0 /\ ~pending) => result = "TimedOut"

\* C4 witness: frame(0) returned TimedOut after one attempt with no frame
\* pending.
C4_Witness ==
    /\ pc = "idle" /\ caller = "frame"
    /\ timeout = 0 /\ ~pending
    /\ acqAttempts = 1 /\ result = "TimedOut" /\ data = <<>>

\* the rejection conditions of the acceptance policy, for cached state c, a
\* report fi and this output's identifier out
PolicyRejects(c, fi, out) ==
    \/ fi.Visible = 0 /\ c.who_updated_position_last # out
    \/ /\ fi.Visible # 0 /\ c.visible
       /\ c.who_updated_position_last # out
       /\ c.last_time_stamp > fi.LastMouseUpdateTime

\* C9: a report with a nonzero timestamp leaves the cached cursor state
\* unchanged exactly when the policy rejects it; otherwise position becomes
\* reported + output left/top - offset, the last-updating output this
\* output, and timestamp and visibility the report's.
C9_AcceptancePolicy ==
    pc = "tracked" =>
        IF PolicyRejects(tr_prev, info, output_number)
        THEN cursor_info = tr_prev
        ELSE /\ cursor_info.position = <<info.x + desc.left - offset_x,
                                         info.y + desc.top - offset_y>>
             /\ cursor_info.who_updated_position_last = output_number
             /\ cursor_info.last_time_stamp = info.LastMouseUpdateTime
             /\ cursor_info.visible = (info.Visible # 0)
             /\ cursor_info.shape = tr_prev.shape
             /\ cursor_info.shape_info = tr_prev.shape_info

\* C9 witness: the stale-update guard: the cache is visible, owned by the
\* other output and newer (2) than the visible report (1); nothing changed.
C9_Witness ==
    /\ pc = "tracked"
    /\ tr_prev.visible /\ tr_prev.who_updated_position_last # output_number
    /\ tr_prev.last_time_stamp = 2
    /\ info.Visible = 1 /\ info.LastMouseUpdateTime = 1
    /\ cursor_info = tr_prev
    /\ cursor_info.position # <<info.x + desc.left - offset_x,
                                info.y + desc.top - offset_y>>

\* C10: the exposed buffer differs from the surface as mapped only if cursor
\* tracking is on and the cached cursor is visible; a session without
\* tracking never changes its cursor state.
C10_CompositorGated ==
    /\ data # bits => (capture_mouse /\ cursor_info.visible)
    /\ (pc = "idle" /\ caller = "frame" /\ result = "Ok"
            /\ ~(capture_mouse /\ cursor_info.visible)) =>
         (data = bits /\ Len(data) = len)
    /\ (~capture_mouse /\ pc \notin {"start", "failed"}) => cursor_info = cursor0

\* C10 witness: a tracked pull succeeded with a cursor shape cached but the
\* cursor hidden, and the buffer is as mapped.
C10_Witness ==
    /\ pc = "idle" /\ caller = "frame" /\ result = "Ok"
    /\ capture_mouse /\ ~cursor_info.visible
    /\ cursor_info.shape # <<>> /\ cursor_info.last_time_stamp # 0
    /\ data # <<>> /\ data = bits

\* --------------------------------------------- claims on the compositor
\* the row pitch of the exposed buffer: its length is height * pitch
ExposedPitch == len \div height

\* where cursor pixel (x, y) of the cached shape lands in the frame
LandX(x) == cursor_info.position[1] + x - cursor_info.shape_info.HotSpot[1]
LandY(y) == cursor_info.position[2] + y - cursor_info.shape_info.HotSpot[2]
InFrame(x, y) ==
    LandX(x) >= 0 /\ LandY(y) >= 0 /\ LandX(x) < width /\ LandY(y) < height

\* C11 (as claimed): destination rows are addressed with the reported row
\* pitch: once frame() has drawn the one-pixel opaque white cursor at an
\* in-frame coordinate (frame_x, frame_y), the four bytes at offset
\* frame_y * pitch + frame_x * 4 of the exposed buffer hold the cursor pixel.
C11_RowsAddressedByPitch ==
    (/\ pc = "idle"
     /\ cursor_info.shape_info = ColorShape.shape_info
     /\ cursor_info.shape = ColorShape.bytes
     /\ InFrame(0, 0)) =>
        \A k \in 1 .. 4 :
            data[LandY(0) * ExposedPitch + LandX(0) * 4 + k] = 255

\* bit x of a row of a 1-bit-per-pixel mask, most-significant bit first
MaskBit(sh, row_start, x) == Bit(sh[row_start + (x \div 8) + 1], 7 - (x % 8))

\* what the monochrome truth table makes of destination value v
MonoExpected(and_bit, xor_bit, v) ==
    IF and_bit = 0 /\ xor_bit = 1 THEN 255 - v
    ELSE IF and_bit = 0 /\ xor_bit = 0 THEN 0
    ELSE v

\* C12 (as claimed): for a monochrome shape (AND mask rows, then XOR mask
\* rows, each half of the reported height, byte = y * pitch + x / 8 within its
\* half, bit = 7 - x mod 8), once frame() has drawn it on a frame without row
\* padding every cursor pixel that lands in the frame has B, G, R inverted for
\* AND=0,XOR=1, set to 0 for AND=0,XOR=0 and unchanged for AND=1.
C12_MonochromeTruthTable ==
    (/\ pc = "idle"
     /\ cursor_info.shape_info.Type = DXGI_OUTDUPL_POINTER_SHAPE_TYPE_MONOCHROME
     /\ ExposedPitch = 4 * width) =>
        LET si == cursor_info.shape_info
            rows == si.Height \div 2
        IN \A x \in 0 .. (si.Width - 1), y \in 0 .. (rows - 1) :
             InFrame(x, y) =>
               LET at == LandY(y) * ExposedPitch + LandX(x) * 4
                   and_bit == MaskBit(cursor_info.shape, y * si.Pitch, x)
                   xor_bit == MaskBit(cursor_info.shape,
                                      rows * si.Pitch + y * si.Pitch, x)
               IN \A k \in 1 .. 3 :
                    data[at + k] = MonoExpected(and_bit, xor_bit, bits[at + k])

\* C13: once frame() has drawn a one-pixel colour cursor on the frame's first
\* pixel, the pixel is unchanged if the source alpha byte is 0; otherwise each
\* of B, G, R is (alpha * src + (255 - alpha) * dst) / 255, truncated, with the
\* sum below 2^16, and the alpha byte is 255; no other byte has changed.
C13_ColorBlend ==
    (/\ pc = "idle"
     /\ cursor_info.shape_info.Type = DXGI_OUTDUPL_POINTER_SHAPE_TYPE_COLOR
     /\ cursor_info.shape_info.Width = 1
     /\ cursor_info.position = <<0, 0>>) =>
        LET sh == cursor_info.shape
            alpha == sh[4]
        IN /\ \A i \in 5 .. Len(data) : data[i] = bits[i]
           /\ Len(data) = Len(bits)
           /\ IF alpha = 0
              THEN \A i \in 1 .. 4 : data[i] = bits[i]
              ELSE /\ \A i \in 1 .. 3 :
                        /\ alpha * sh[i] + (255 - alpha) * bits[i] < 65536
                        /\ data[i] = (alpha * sh[i] + (255 - alpha) * bits[i]) \div 255
                   /\ data[4] = 255

\* C13 witness: alpha 128, source 255 on destination 0 gave 128.
C13_Witness ==
    /\ pc = "idle"
    /\ cursor_info.shape_info.Type = DXGI_OUTDUPL_POINTER_SHAPE_TYPE_COLOR
    /\ cursor_info.shape[4] = 128 /\ cursor_info.shape[1] = 255
    /\ bits[1] = 0
    /\ data[1] = 128 /\ data[4] = 255

\* C14: once frame() has drawn a one-pixel masked-colour cursor on the
\* frame's first pixel, the pixel is unchanged if the source alpha byte is 0;
\* otherwise each of B, G, R keeps the destination value where the source
\* byte is 0 and takes the source byte where it is not, and the alpha byte is
\* 255; no other byte has changed.
C14_MaskedColor ==
    (/\ pc = "idle"
     /\ cursor_info.shape_info.Type = DXGI_OUTDUPL_POINTER_SHAPE_TYPE_MASKED_COLOR
     /\ cursor_info.shape_info.Width = 1
     /\ cursor_info.position = <<0, 0>>) =>
        LET sh == cursor_info.shape
            alpha == sh[4]
        IN /\ \A i \in 5 .. Len(data) : data[i] = bits[i]
           /\ Len(data) = Len(bits)
           /\ IF alpha = 0
              THEN \A i \in 1 .. 4 : data[i] = bits[i]
              ELSE /\ \A i \in 1 .. 3 :
                        data[i] = (IF sh[i] = 0 THEN bits[i] ELSE sh[i])
                   /\ data[4] = 255

\* C14 witness: a pixel with a zero and a nonzero source byte was drawn: the
\* zero byte left the destination, the nonzero byte replaced it.
C14_Witness ==
    /\ pc = "idle"
    /\ cursor_info.shape_info.Type = DXGI_OUTDUPL_POINTER_SHAPE_TYPE_MASKED_COLOR
    /\ cursor_info.shape_info.Width = 1
    /\ cursor_info.shape[4] > 0
    /\ cursor_info.shape[1] = 0 /\ cursor_info.shape[2] = 255
    /\ bits[1] = 128 /\ bits[2] = 128 /\ bits[4] = 128
    /\ data[1] = 128 /\ data[2] = 255 /\ data[4] = 255

\* the accesses of a whole draw_cursor call on the exposed buffer
AllAccesses ==
    LET si == cursor_info.shape_info IN
    {CursorAccesses(cursor_info, Len(bits), width, height, x, y) :
        x \in 0 .. (si.Width - 1), y \in 0 .. (si.Height - 1)}

\* byte i (from 0) of the exposed buffer belongs to a frame pixel that the
\* cursor rectangle covers
CoveredByte(i) ==
    LET si == cursor_info.shape_info IN
    \E x \in 0 .. (si.Width - 1), y \in 0 .. (si.Height - 1) :
        /\ InFrame(x, y)
        /\ i >= LandY(y) * ExposedPitch + LandX(x) * 4
        /\ i < LandY(y) * ExposedPitch + LandX(x) * 4 + 4

\* C18 (as claimed): once frame() has drawn the cursor, every shape index
\* read lies inside the shape buffer, every frame index written lies inside
\* the frame buffer, the buffer differs from the mapped surface at written
\* indices only, and every byte that differs belongs to a frame pixel covered
\* by the cursor rectangle.
C18_SkipsOutOfBounds ==
    pc = "idle" =>
        /\ \A a \in AllAccesses :
             /\ \A r \in a.reads : r >= 0 /\ r < Len(cursor_info.shape)
             /\ \A w \in a.writes : w >= 0 /\ w < Len(bits)
        /\ Len(data) = Len(bits)
        /\ \A i \in 1 .. Len(data) :
             data[i] # bits[i] =>
                /\ \E a \in AllAccesses : (i - 1) \in a.writes
                /\ CoveredByte(i - 1)

\* ------------------------------------- claims on construction and drop
\* C15 (as claimed): once a session has been dropped, every handle it owned
\* has been released exactly once (device, context, duplication and every
\* handle obtained by a pull), in reverse order of acquisition (the staging
\* surface first, then the duplication, then device and context, which one
\* call created), no frame is in flight and nothing is mapped.
C15_DropReleasesAll ==
    pc = "dropped" =>
        /\ devRef = 0 /\ ctxRef = 0 /\ dupRef = 0
        /\ handleRefs = NoRefs
        /\ dropOrder \in {<<"surface", "duplication", "context", "device">>,
                          <<"surface", "duplication", "device", "context">>,
                          <<"duplication", "context", "device">>,
                          <<"duplication", "device", "context">>}
        /\ ~frameHeld
        /\ ~desktopMapped /\ nMapped = 0

\* C16: when Capturer::new has returned an error, the error is not a
\* success, nothing of a session is left (no duplication, no surface, no
\* frame, nothing mapped) and device and context have reference count 0:
\* created and released once, or never created.
C16_FailedConstructionLeaksNothing ==
    pc = "failed" =>
        /\ result \notin {"Ok", "none"}
        /\ devRef = 0 /\ ctxRef = 0 /\ dupRef = 0
        /\ handleRefs = NoRefs
        /\ surface = NULL /\ data = <<>>
        /\ ~frameHeld /\ ~desktopMapped /\ nMapped = 0
        /\ pulls = 0 /\ acqAttempts = 0

\* C16 witness: DuplicateOutput failed with access lost and new() returned
\* that error after releasing device and context.
C16_Witness ==
    /\ pc = "failed"
    /\ lastHr = "DXGI_ERROR_ACCESS_LOST" /\ result = "ConnectionReset"
    /\ devRef = 0 /\ ctxRef = 0

\* the error kind the status mapper gives each platform status code
StatusKind(x) ==
    CASE x = "DXGI_ERROR_WAIT_TIMEOUT" -> "TimedOut"
      [] x = "DXGI_ERROR_ACCESS_LOST" -> "ConnectionReset"
      [] x = "DXGI_ERROR_SESSION_DISCONNECTED" -> "ConnectionAborted"
      [] x = "DXGI_ERROR_INVALID_CALL" -> "InvalidData"
      [] x = "E_ACCESSDENIED" -> "PermissionDenied"
      [] x = "DXGI_ERROR_UNSUPPORTED" -> "ConnectionRefused"
      [] x = "DXGI_ERROR_NOT_CURRENTLY_AVAILABLE" -> "Interrupted"
      [] OTHER -> "Other"

\* the calls whose status the mapper has just turned into the returned error:
\* DuplicateOutput in a failed new(), AcquireNextFrame in a failed frame()
MappedErrorReturned ==
    /\ lastHr # "S_OK"
    /\ pc = "failed" \/ (pc = "idle" /\ caller = "frame")

C19_ShapeBufferOnlyGrows ==
    (pc # "cursor" /\ info.LastMouseUpdateTime # 0) =>
        /\ Len(cursor_info.shape) >= Len(tr_prev.shape)
        /\ Len(cursor_info.shape) >= info.PointerShapeBufferSize

\* C19 witness: a shape of 4 bytes was fetched into a buffer of 12 bytes,
\* which still has 12 bytes.
C19_Witness ==
    /\ pc = "map"
    /\ Len(tr_prev.shape) = 12 /\ info.PointerShapeBufferSize = 4
    /\ cursor_info.shape_info = ColorShape.shape_info
    /\ Len(cursor_info.shape) = 12

\* C20: after the tracker step on a report with a nonzero timestamp: if the
\* reported shape size is 0 the cached shape bytes and metadata are as
\* before; otherwise, if the fetch did not fail, the metadata are those of
\* the delivered shape and its bytes lead the buffer, whether the position
\* update was accepted or rejected.
C20_ShapeReplacedUnconditionally ==
    (pc # "cursor" /\ info.LastMouseUpdateTime # 0) =>
        IF info.PointerShapeBufferSize = 0
        THEN /\ cursor_info.shape = tr_prev.shape
             /\ cursor_info.shape_info = tr_prev.shape_info
             /\ pc = "map"
        ELSE \/ pc = "idle" /\ loadResult \notin {"Ok", "none"}
             \/ /\ pc = "map"
                /\ \E p \in PointerShapes :
                     /\ Len(p.bytes) = info.PointerShapeBufferSize
                     /\ cursor_info.shape_info = p.shape_info
                     /\ \A i \in 1 .. Len(p.bytes) : cursor_info.shape[i] = p.bytes[i]

\* C20 witness: the position update was rejected (hidden report of another
\* output's cursor) and the cached shape was replaced all the same.
C20_Witness ==
    /\ pc = "map"
    /\ PolicyRejects(tr_prev, info, output_number)
    /\ cursor_info.position = tr_prev.position
    /\ cursor_info.last_time_stamp = tr_prev.last_time_stamp
    /\ info.PointerShapeBufferSize = 4
    /\ tr_prev.shape_info.Type = DXGI_OUTDUPL_POINTER_SHAPE_TYPE_MONOCHROME
    /\ cursor_info.shape_info = ColorShape.shape_info
    /\ cursor_info.shape = ColorShape.bytes

\* ------------------------------------------- claims on the priming pull
\* C21 (as claimed): new() makes one internal pull and always returns the
\* session, whatever that pull did (it never stops inside the pull), and when
\* the first frame() is about to acquire, nothing the priming pull obtained
\* is left: no frame in flight, nothing mapped, no staging surface, every
\* handle of the pull released and none released through a null pointer.
C21_PrimingPullIgnoredAndCleaned ==
    /\ (caller = "new" /\ pc = "idle") =>
          (result = "Ok" /\ acqAttempts = 1 /\ pulls = 0)
    /\ caller = "new" => pc # "crashed"
    /\ (caller = "frame" /\ pulls = 1 /\ pc = "load") =>
          /\ ~frameHeld
          /\ ~desktopMapped /\ nMapped = 0 /\ ~surfaceMapped
          /\ surface = NULL
          /\ handleRefs = NoRefs
          /\ ~badRelease

\* ------------------------------------- claims on the single-output session
\* the cache after a report is accepted by an output whose left/top are d
Accepted(ci, fi, d) ==
    [ci EXCEPT !.position = <<fi.x + d.left, fi.y + d.top>>,
               !.who_updated_position_last = 0,
               !.last_time_stamp = fi.LastMouseUpdateTime,
               !.visible = (fi.Visible # 0)]

\* C22: in every state of a capture session the output identifier and both
\* offsets are 0 and the cached last-updating output equals the output
\* identifier; so whenever the tracker is about to run, every report with a
\* nonzero timestamp would be accepted, and after a tracker step that was
\* given such a report (older than the cached timestamp or not) the cache
\* holds the report's timestamp and visibility and the reported position plus
\* the output's left/top.
C22_EveryReportAccepted ==
    /\ output_number = 0 /\ offset_x = 0 /\ offset_y = 0
    /\ cursor_info.who_updated_position_last = output_number
    /\ (pc = "cursor" /\ capture_mouse) =>
          \A fi \in FrameInfos :
              fi.LastMouseUpdateTime # 0 =>
                  UpdateCursorPosition(cursor_info, fi, output_number,
                                       offset_x, offset_y, desc)
                      = Accepted(cursor_info, fi, desc)
    /\ (pc = "map" /\ seenBefore.LastMouseUpdateTime # 0) =>
          /\ cursor_info.position = <<seenBefore.x + desc.left,
                                      seenBefore.y + desc.top>>
          /\ cursor_info.last_time_stamp = seenBefore.LastMouseUpdateTime
          /\ cursor_info.visible = (seenBefore.Visible # 0)

\* a visible report older than the timestamp of a visible cache has been
\* accepted on an output whose left/top are not 0
C22_Witness ==
    /\ pc = "map" /\ caller = "frame" /\ capture_mouse
    /\ seenBefore.visible /\ seenBefore.last_time_stamp = 2
    /\ seenBefore.LastMouseUpdateTime = 1 /\ seenBefore.Visible = 1
    /\ seenBefore.x = 1
    /\ desc = [left |-> 1, top |-> -1]
    /\ cursor_info.last_time_stamp = 1 /\ cursor_info.visible
    /\ cursor_info.position = <<2, -1>>

====
